---- MODULE Spec2Model ----
(***************************************************************************)
(* A model of vsl_json: the VSLJSONEncoder (a JSON encoder that puts small *)
(* lists on single lines), and the module functions dumps, dump and load.  *)
(*                                                                         *)
(* Text is a sequence of characters, each a string: the character itself,  *)
(* or the name of its code point ("U+00e9").  A Python value is a          *)
(* record [t, neg, n, e, base, s, keys, items]:                            *)
(*   t = "none" | "bool" | "int" | "float" | "str" | "object"              *)
(*       | "list" | "tuple" | "dict"                                       *)
(*   n     the number of a bool (0/1) or an int                            *)
(*   neg, n, e, base                                                       *)
(*         a finite float is the double nearest to n * base^e, negated     *)
(*         when neg.  One of 2^31 smallest doubles (2^-1074) or more has   *)
(*         base = 10 and n >= 0 not a multiple of 10 (0.0 and -0.0 are     *)
(*         n = 0, e = 0); a smaller one is n * 2^-1074 exactly, with       *)
(*         base = 2, e = -1074 and 0 < n < 2^31.  So each double has one   *)
(*         record.  The integers here have 32 bits, so these are the       *)
(*         floats whose shortest decimal text has a mantissa below 2^31,   *)
(*         and those below 2^-1043.                                        *)
(*   s     the characters of a str; for a non-finite float its name        *)
(*         ("nan", "inf", "-inf"), and empty for a finite float            *)
(*   keys  the keys of a dict, in insertion order; a key is [kt, s] with   *)
(*         kt = "str" | "none" | "int" and s the text str(k) of the key    *)
(*   items the elements of a list, or the values of a dict                 *)
(* "object" is a value of a type json cannot serialise.                    *)
(***************************************************************************)
EXTENDS Integers, Sequences, FiniteSets, TLC

VARIABLES enc, data, out, file, pc, raw_json, loaded

vars == <<enc, data, out, file, pc, raw_json, loaded>>

(***************************** text helpers ********************************)

\* s repeated n times (str * int)
Rep(s, n) == [i \in 1..(n * Len(s)) |-> s[((i - 1) % Len(s)) + 1]]

DigitChars == <<"0", "1", "2", "3", "4", "5", "6", "7", "8", "9">>

RECURSIVE NatText(_)
NatText(n) ==
  IF n < 10 THEN <<DigitChars[n + 1]>>
  ELSE NatText(n \div 10) \o <<DigitChars[(n % 10) + 1]>>

\* str(int)
IntText(n) == IF n < 0 THEN <<"-">> \o NatText(-n) ELSE NatText(n)

\* n as exactly w digits, zero padded on the left
RECURSIVE PadText(_, _)
PadText(n, w) ==
  IF w = 0 THEN <<>>
  ELSE PadText(n \div 10, w - 1) \o <<DigitChars[(n % 10) + 1]>>

\* str.rstrip(c)
RECURSIVE RStrip(_, _)
RStrip(s, c) ==
  IF Len(s) > 0 /\ s[Len(s)] = c THEN RStrip(SubSeq(s, 1, Len(s) - 1), c)
  ELSE s

\* sep.join(texts)
RECURSIVE Join(_, _)
Join(texts, sep) ==
  IF Len(texts) = 0 THEN <<>>
  ELSE IF Len(texts) = 1 THEN texts[1]
  ELSE texts[1] \o sep \o Join(Tail(texts), sep)

HexChars ==
  <<"0", "1", "2", "3", "4", "5", "6", "7", "8", "9",
    "a", "b", "c", "d", "e", "f">>

\* format(n, "x") in at least w characters, zero padded on the left
RECURSIVE HexText(_, _)
HexText(n, w) ==
  IF n = 0 /\ w <= 0 THEN <<>>
  ELSE HexText(n \div 16, w - 1) \o <<HexChars[(n % 16) + 1]>>

RECURSIVE Concat(_)
Concat(cs) == IF Len(cs) = 0 THEN "" ELSE cs[1] \o Concat(Tail(cs))

\* A character is a string.  One that cannot be written between quotes here
\* (a control character, the grave accent, DEL, anything above 127) is named
\* by its code point: "U+0008" is backspace, "U+00e9" is e acute, "U+d83d" a
\* lone surrogate.
CodeName(n) == "U+" \o Concat(HexText(n, 4))

\* the characters with code points 0..127, by code point
Ascii ==
  <<"U+0000", "U+0001", "U+0002", "U+0003", "U+0004", "U+0005", "U+0006",
    "U+0007", "U+0008", "\t", "\n", "U+000b", "\f", "\r", "U+000e", "U+000f",
    "U+0010", "U+0011", "U+0012", "U+0013", "U+0014", "U+0015", "U+0016",
    "U+0017", "U+0018", "U+0019", "U+001a", "U+001b", "U+001c", "U+001d",
    "U+001e", "U+001f", " ", "!", "\"", "#", "$", "%", "&", "'", "(", ")",
    "*", "+", ",", "-", ".", "/", "0", "1", "2", "3", "4", "5", "6", "7", "8",
    "9", ":", ";", "<", "=", ">", "?", "@", "A", "B", "C", "D", "E", "F", "G",
    "H", "I", "J", "K", "L", "M", "N", "O", "P", "Q", "R", "S", "T", "U", "V",
    "W", "X", "Y", "Z", "[", "\\", "]", "^", "_", "U+0060", "a", "b", "c",
    "d", "e", "f", "g", "h", "i", "j", "k", "l", "m", "n", "o", "p", "q", "r",
    "s", "t", "u", "v", "w", "x", "y", "z", "{", "|", "}", "~", "U+007f">>

AsciiChars == {Ascii[i] : i \in 1..Len(Ascii)}
\* the characters below " "
ControlChars == {Ascii[i] : i \in 1..32}
\* the characters from " " to "~"
PrintableChars == {Ascii[i] : i \in 33..127}
AsciiCode ==
  [c \in AsciiChars |-> (CHOOSE i \in 1..Len(Ascii) : Ascii[i] = c) - 1]

IsAscii(c) == c \in AsciiChars

\* chr(n)
Chr(n) == IF n < Len(Ascii) THEN Ascii[n + 1] ELSE CodeName(n)

\* code points above 127 that are looked up before the others: e acute, a
\* high and a low surrogate, U+1F600
KnownCodes == {233, 55357, 56832, 128512}

\* ord(c), for the code points of Unicode
Ord(c) ==
  IF IsAscii(c) THEN AsciiCode[c]
  ELSE IF \E n \in KnownCodes : CodeName(n) = c
       THEN CHOOSE n \in KnownCodes : CodeName(n) = c
  ELSE CHOOSE n \in Len(Ascii)..1114111 : CodeName(n) = c

\* a < b for str: by code points, a proper prefix first
RECURSIVE StrLess(_, _)
StrLess(a, b) ==
  IF Len(b) = 0 THEN FALSE
  ELSE IF Len(a) = 0 THEN TRUE
  ELSE IF a[1] = b[1] THEN StrLess(Tail(a), Tail(b))
  ELSE Ord(a[1]) < Ord(b[1])

(******************************* values ************************************)

Value(t, neg, n, e, s, keys, items) ==
  [t |-> t, neg |-> neg, n |-> n, e |-> e, base |-> 10, s |-> s,
   keys |-> keys, items |-> items]
Scalar(t, n, s) == Value(t, FALSE, n, 0, s, <<>>, <<>>)
PyNone == Scalar("none", 0, <<>>)
PyBool(b) == Scalar("bool", IF b THEN 1 ELSE 0, <<>>)
PyInt(n) == Scalar("int", n, <<>>)
PyNonFinite(name) == Scalar("float", 0, name)
PyStr(s) == Scalar("str", 0, s)
PyObject == Scalar("object", 0, <<>>)
PyList(items) == Value("list", FALSE, 0, 0, <<>>, <<>>, items)
PyDict(keys, items) == Value("dict", FALSE, 0, 0, <<>>, keys, items)

\* the number of decimal digits of n >= 0 (1 for 0)
RECURSIVE NumDigits(_)
NumDigits(n) == IF n < 10 THEN 1 ELSE 1 + NumDigits(n \div 10)

\* n * 10^e, n > 0, is at or above the middle of the largest double
\* (1.7976931348623157e308) and 2^1024, where float() gives an infinity
Overflows(n, e) ==
  \/ NumDigits(n) + e > 309
  \/ /\ NumDigits(n) + e = 309
     /\ IF NumDigits(n) = 10 THEN n > 1797693134
        ELSE n * 10 ^ (9 - NumDigits(n)) > 179769313

\* n * 10^e, n > 0, is below half the smallest double (2^-1075, which is
\* 2.470328229...e-324), where float() gives a zero
Underflows(n, e) ==
  \/ NumDigits(n) + e < -323
  \/ /\ NumDigits(n) + e = -323
     /\ (NumDigits(n) = 10 \/ n * 10 ^ (9 - NumDigits(n)) <= 247032822)

\* 2^1074, the number of smallest doubles in 1, in limbs of four decimal
\* digits, the least significant first
TwoPow1074 ==
  <<4784, 9349, 7410, 7707, 6330, 62, 8646, 2750, 1863, 2532, 3050, 6152,
    3414, 5233, 7695, 2358, 5651, 8100, 6340, 5955, 6491, 3355, 1810, 6986,
    4692, 8342, 74, 8562, 4506, 4727, 7678, 3976, 3412, 3216, 4209, 9077,
    4466, 6136, 5663, 4276, 1742, 9215, 8509, 4073, 3999, 7013, 7686, 7934,
    7385, 873, 3898, 1911, 1681, 8643, 7077, 9518, 1244, 1437, 8370, 9603,
    6891, 9534, 5679, 339, 2743, 3580, 6901, 1835, 1421, 9764, 5664, 495,
    7307, 1891, 3467, 2495, 1835, 3106, 3307, 225, 2024>>

Limb(i) == IF i >= 0 /\ i < Len(TwoPow1074) THEN TwoPow1074[i + 1] ELSE 0

\* n * 2^1074 by long multiplication, n in three limbs: the sum of column i,
\* the carry into limb j given the carry c into limb i, the carry into limb
\* j (thirteen limbs at a time), and the decimal digit of weight 10^q
Column(n, i) ==
  (n % 10000) * Limb(i) + ((n \div 10000) % 10000) * Limb(i - 1)
    + (n \div 100000000) * Limb(i - 2)
RECURSIVE CarryFrom(_, _, _, _)
CarryFrom(n, i, j, c) ==
  IF i >= j \/ c < 0 THEN c
  ELSE CarryFrom(n, i + 1, j, (Column(n, i) + c) \div 10000)
RECURSIVE Carry(_, _)
Carry(n, j) ==
  IF j <= 13 THEN CarryFrom(n, 0, j, 0)
  ELSE CarryFrom(n, j - 13, j, Carry(n, j - 13))
ProductDigit(n, q) ==
  (((Column(n, q \div 4) + Carry(n, q \div 4)) % 10000) \div 10 ^ (q % 4)) % 10
\* the w digits of n * 2^1074 from weight 10^a up, as a number
RECURSIVE Window(_, _, _)
Window(n, a, w) ==
  IF w = 0 THEN 0 ELSE ProductDigit(n, a) + 10 * Window(n, a + 1, w - 1)

\* n / 10^m below 10^-313 in smallest doubles, rounded to the nearest, as
\* TinyHigh * 10^9 + TinyLow.  It is never halfway between two: that takes a
\* multiple of 5^(m - 1) for n.
TinyHigh(n, m) == Window(n, m + 9, 2)
TinyLow(n, m) ==
  Window(n, m, 9) + (IF ProductDigit(n, m - 1) >= 5 THEN 1 ELSE 0)
IsTiny(n, m) ==
  TinyHigh(n, m) < 2 \/ (TinyHigh(n, m) = 2 /\ TinyLow(n, m) < 147483648)
TinyUnits(n, m) == TinyHigh(n, m) * 10 ^ 9 + TinyLow(n, m)

\* float() of n * 10^e (n >= 0), negated when neg: the double nearest to it,
\* an infinity or a zero beyond the range
RECURSIVE PyFloat(_, _, _)
PyFloat(neg, n, e) ==
  IF n = 0 THEN Value("float", neg, 0, 0, <<>>, <<>>, <<>>)
  ELSE IF n % 10 = 0 THEN PyFloat(neg, n \div 10, e + 1)
  ELSE IF Overflows(n, e)
       THEN PyNonFinite(IF neg THEN <<"-", "i", "n", "f">>
                        ELSE <<"i", "n", "f">>)
  ELSE IF Underflows(n, e) THEN Value("float", neg, 0, 0, <<>>, <<>>, <<>>)
  ELSE IF NumDigits(n) + e <= -313 /\ IsTiny(n, -e)
       THEN [Value("float", neg, TinyUnits(n, -e), -1074, <<>>, <<>>, <<>>)
               EXCEPT !.base = 2]
  ELSE Value("float", neg, n, e, <<>>, <<>>, <<>>)

KStr(s) == [kt |-> "str", s |-> s]
KNone == [kt |-> "none", s |-> <<>>]
KInt(n) == [kt |-> "int", s |-> IntText(n)]

IsFloat(o) == o.t = "float"
IsFinite(o) == o.s = <<>>
IsListLike(o) == o.t \in {"list", "tuple"}
IsDict(o) == o.t = "dict"

IsContainer(o) == o.t \in {"list", "tuple", "dict"}

(********************** VSLJSONEncoder: constants *************************)

MAX_WIDTH == 79
MAX_ITEMS == 10
\* the class attributes an encoder reads through self
VSLJSONEncoder == [MAX_WIDTH |-> MAX_WIDTH, MAX_ITEMS |-> MAX_ITEMS]
\* the factor of indentation_level in the width test of _encode_list
LEVEL_WIDTH == 2
\* the digits of the format "0.6f"
FRAC_DIGITS == 6
DefaultIndent == <<" ", " ">>
\* the keyword argument indent when it is not given (None)
NoIndent == <<"None">>

\* __init__ of the class cls (VSLJSONEncoder or a subclass that overrides its
\* attributes): indent None becomes two spaces; indentation_level starts at 0
NewEncoderObject(cls, indent, sort_keys, ensure_ascii) ==
  [cls |-> cls,
   indent |-> IF indent = NoIndent THEN DefaultIndent ELSE indent,
   sort_keys |-> sort_keys,
   ensure_ascii |-> ensure_ascii,
   indentation_level |-> 0]

\* the property indent_str
IndentStr(lvl, cfg) == Rep(cfg.indent, lvl)

(********************** VSLJSONEncoder: scalars ***************************)

\* f"{o}" of a finite float with is_integer(), which is its repr: the
\* digits and ".0" up to 16 digits, beyond them d.ddde+XX
FloatRepr(o) ==
  (IF o.neg THEN <<"-">> ELSE <<>>)
    \o (IF NumDigits(o.n) + o.e <= 16
        THEN NatText(o.n) \o Rep(<<"0">>, o.e) \o <<".", "0">>
        ELSE <<Head(NatText(o.n))>>
               \o (IF o.n < 10 THEN <<>> ELSE <<".">> \o Tail(NatText(o.n)))
               \o <<"e", "+">> \o NatText(NumDigits(o.n) + o.e - 1))

\* The double nearest to m / 10^(FRAC_DIGITS + 1) is
\* m / 2^(FRAC_DIGITS + 1) / FivePower: its 53 leading bits are those of
\* m / FivePower, rounded by the bits that follow.
FivePower == 5 ^ (FRAC_DIGITS + 1)

RECURSIVE BitLength(_)
BitLength(q) == IF q = 0 THEN 0 ELSE 1 + BitLength(q \div 2)

\* the doublings that bring r, 0 < r < FivePower, to FivePower or above
RECURSIVE LeadShift(_)
LeadShift(r) == IF r >= FivePower THEN 0 ELSE 1 + LeadShift(2 * r)

\* (r * 2^k) % FivePower
RECURSIVE ShiftMod(_, _)
ShiftMod(r, k) ==
  IF k = 0 THEN r
  ELSE LET s == IF k < 8 THEN k ELSE 8
       IN ShiftMod((r * 2 ^ s) % FivePower, k - s)

\* where the double of m / 10^(FRAC_DIGITS + 1) lies, for m > 0: 1 above that
\* number, -1 below it, 0 on it
DoubleSide(m) ==
  LET q == m \div FivePower
      r == m % FivePower
      k == IF q > 0 THEN 53 - BitLength(q) ELSE 52 + LeadShift(r)
  IN IF r = 0 THEN 0
     ELSE IF 2 * ShiftMod(r, k) > FivePower THEN 1 ELSE -1

\* The double nearest to n / 10^k, k > FRAC_DIGITS and n > 0 not a multiple
\* of 10, rounded to FRAC_DIGITS decimals, in units of 10^-FRAC_DIGITS.  The
\* double is nearer to n / 10^k than n / 10^k is to any other number of k
\* decimals, so it rounds as n / 10^k does unless that is halfway; halfway
\* (k = FRAC_DIGITS + 1, last digit 5) the side of the double decides, and
\* the even neighbour when the double is exactly halfway.
RoundFixed(n, k) ==
  IF k - FRAC_DIGITS > 9 THEN 0
  ELSE LET drop == 10 ^ (k - FRAC_DIGITS)
           q0 == n \div drop
           r == n % drop
       IN IF r > drop \div 2 THEN q0 + 1
          ELSE IF r < drop \div 2 THEN q0
          ELSE IF DoubleSide(n) = 1 \/ (DoubleSide(n) = 0 /\ q0 % 2 = 1)
               THEN q0 + 1
          ELSE q0

\* the integer part and the FRAC_DIGITS decimals of that rounding; with k
\* decimals or fewer to round to, it is n / 10^k itself
FixedWhole(n, k) ==
  IF k <= FRAC_DIGITS THEN n \div 10 ^ k
  ELSE RoundFixed(n, k) \div 10 ^ FRAC_DIGITS
FixedFrac(n, k) ==
  IF k <= FRAC_DIGITS THEN (n % 10 ^ k) * 10 ^ (FRAC_DIGITS - k)
  ELSE RoundFixed(n, k) % 10 ^ FRAC_DIGITS

\* f"{o:0.6f}" of a finite float without is_integer(); one of base 2 is
\* below 2^-1043 and rounds to 0
FormatFixed(o) ==
  (IF o.neg THEN <<"-">> ELSE <<>>)
    \o NatText(IF o.base = 2 THEN 0 ELSE FixedWhole(o.n, -o.e)) \o <<".">>
    \o PadText(IF o.base = 2 THEN 0 ELSE FixedFrac(o.n, -o.e), FRAC_DIGITS)

\* EncodeFloat with the zeros stripped in every branch and the point in none
EncodeFloatKeepPoint(o) ==
  IF IsFinite(o) /\ o.e >= 0 THEN RStrip(FloatRepr(o), "0")
  ELSE IF IsFinite(o) THEN RStrip(FormatFixed(o), "0")
  ELSE RStrip(RStrip(o.s, "0"), ".")

\* encode, the float branch: never raises, whatever allow_nan is
EncodeFloat(o) ==
  IF IsFinite(o) /\ o.e >= 0 THEN FloatRepr(o)
  ELSE IF IsFinite(o) THEN RStrip(RStrip(FormatFixed(o), "0"), ".")
  ELSE RStrip(RStrip(o.s, "0"), ".")

\* "\\u{0:04x}".format(n), and the surrogate pair of a code point above 0xffff
UEscape(n) ==
  IF n < 65536 THEN <<"\\", "u">> \o HexText(n, 4)
  ELSE <<"\\", "u">> \o HexText(55296 + ((n - 65536) \div 1024), 4)
         \o <<"\\", "u">> \o HexText(56320 + ((n - 65536) % 1024), 4)

\* json.dumps of one character of a str: the short escapes, \u00xx for the
\* other control characters, and with ensure_ascii \uxxxx for all that is not
\* between " " and "~"
EscapeChar(c, ensure_ascii) ==
  CASE c = "\"" -> <<"\\", "\"">>
    [] c = "\\" -> <<"\\", "\\">>
    [] c = "\n" -> <<"\\", "n">>
    [] c = "\r" -> <<"\\", "r">>
    [] c = "\t" -> <<"\\", "t">>
    [] c = "\f" -> <<"\\", "f">>
    [] c = Chr(8) -> <<"\\", "b">>
    [] OTHER -> IF c \in ControlChars THEN UEscape(Ord(c))
                ELSE IF ensure_ascii /\ c \notin PrintableChars
                     THEN UEscape(Ord(c))
                ELSE <<c>>

\* json.dumps of the characters of a str
RECURSIVE Escape(_, _)
Escape(s, ensure_ascii) ==
  IF Len(s) = 0 THEN <<>>
  ELSE EscapeChar(s[1], ensure_ascii) \o Escape(Tail(s), ensure_ascii)

JsonString(s, ensure_ascii) == <<"\"">> \o Escape(s, ensure_ascii) \o <<"\"">>

Ok(text, lvl) == [err |-> FALSE, text |-> text, lvl |-> lvl]
Raise(lvl) == [err |-> TRUE, text |-> <<>>, lvl |-> lvl]

\* encode, the last branch: json.dumps(o, ...) of a value that is no float,
\* list, tuple or dict; TypeError for a type json does not know
EncodePrimitive(o, lvl, cfg) ==
  CASE o.t = "none" -> Ok(<<"n", "u", "l", "l">>, lvl)
    [] o.t = "bool" -> Ok(IF o.n = 1 THEN <<"t", "r", "u", "e">>
                          ELSE <<"f", "a", "l", "s", "e">>, lvl)
    [] o.t = "int" -> Ok(IntText(o.n), lvl)
    [] o.t = "str" -> Ok(JsonString(o.s, cfg.ensure_ascii), lvl)
    [] OTHER -> Raise(lvl)

(********************** VSLJSONEncoder: containers ************************)

\* _primitives_only
PrimitivesOnly(o) == \A i \in 1..Len(o.items) : ~IsContainer(o.items[i])

\* index of key k in keys, 0 when absent
KeyIndex(keys, k) ==
  IF \E i \in 1..Len(keys) : keys[i] = k
  THEN CHOOSE i \in 1..Len(keys) : keys[i] = k
  ELSE 0

\* a dict built by inserting the pairs in order: a key keeps the position of
\* its first insertion and the value of its last
RECURSIVE DictFromPairs(_, _, _, _)
DictFromPairs(keys, items, accK, accV) ==
  IF Len(keys) = 0 THEN [keys |-> accK, items |-> accV]
  ELSE LET i == KeyIndex(accK, keys[1])
       IN IF i = 0
          THEN DictFromPairs(Tail(keys), Tail(items),
                             Append(accK, keys[1]), Append(accV, items[1]))
          ELSE DictFromPairs(Tail(keys), Tail(items),
                             accK, [accV EXCEPT ![i] = items[1]])

\* str(k) if k is not None else "null"
KeyText(k) == IF k.kt = "none" THEN <<"n", "u", "l", "l">> ELSE k.s

\* NormalizeKeys keeping a list of pairs, so that equal keys do not merge
NormalizeKeysPairs(o) ==
  [keys |-> [i \in 1..Len(o.keys) |-> KeyText(o.keys[i])], items |-> o.items]

\* o = {str(k) if k is not None else "null": v for k, v in o.items()}
NormalizeKeys(o) ==
  DictFromPairs([i \in 1..Len(o.keys) |-> KeyText(o.keys[i])], o.items,
                <<>>, <<>>)

\* insertion of the pair (k, v) into a list of pairs sorted by key
RECURSIVE InsertSorted(_, _, _)
InsertSorted(k, v, d) ==
  IF Len(d.keys) = 0 \/ StrLess(k, d.keys[1])
  THEN [keys |-> <<k>> \o d.keys, items |-> <<v>> \o d.items]
  ELSE LET rest == InsertSorted(k, v, [keys |-> Tail(d.keys),
                                       items |-> Tail(d.items)])
       IN [keys |-> <<d.keys[1]>> \o rest.keys,
           items |-> <<d.items[1]>> \o rest.items]

\* SortItems that leaves the insertion order
SortItemsUnsorted(d) == d

\* dict(sorted(o.items(), key=lambda x: x[0])), the keys being distinct strs
RECURSIVE SortItems(_)
SortItems(d) ==
  IF Len(d.keys) = 0 THEN d
  ELSE InsertSorted(d.keys[1], d.items[1],
                    SortItems([keys |-> Tail(d.keys), items |-> Tail(d.items)]))

RECURSIVE Encode(_, _, _)
RECURSIVE EncodeList(_, _, _)
RECURSIVE EncodeObject(_, _, _)

\* the index of the first result that raised, 0 when none did
FirstError(rs) ==
  IF \E i \in 1..Len(rs) : rs[i].err
  THEN CHOOSE i \in 1..Len(rs) :
         rs[i].err /\ \A j \in 1..(i - 1) : ~rs[j].err
  ELSE 0

\* _encode_list.  A comprehension over encode(el) encodes the elements in
\* order at one level (an encode that returns leaves the level as it found
\* it); the first one that raises ends the call, and the level stays what it
\* was when it raised.
EncodeList(o, lvl, cfg) ==
  LET inl == [i \in 1..Len(o.items) |-> Encode(o.items[i], lvl, cfg)]
      datatext ==
        <<"[">> \o Join([i \in 1..Len(inl) |-> inl[i].text], <<",", " ">>)
          \o <<"]">>
      exp == [i \in 1..Len(o.items) |-> Encode(o.items[i], lvl + 1, cfg)]
      expanded ==
        IF FirstError(exp) # 0 THEN Raise(exp[FirstError(exp)].lvl)
        ELSE Ok(<<"[", "\n">>
                  \o Join([i \in 1..Len(exp) |->
                             IndentStr(lvl + 1, cfg) \o exp[i].text],
                          <<",", "\n">>)
                  \o <<"\n">> \o IndentStr(lvl, cfg) \o <<"]">>, lvl)
  IN IF PrimitivesOnly(o) /\ Len(o.items) <= cfg.cls.MAX_ITEMS
     THEN IF FirstError(inl) # 0 THEN Raise(inl[FirstError(inl)].lvl)
          ELSE IF Len(datatext) + lvl * LEVEL_WIDTH < cfg.cls.MAX_WIDTH
               THEN Ok(datatext, lvl)
               ELSE expanded
     ELSE expanded

\* _encode_object
EncodeObject(o, lvl, cfg) ==
  LET n == NormalizeKeys(o)
      d == IF cfg.sort_keys THEN SortItems(n) ELSE n
      rs == [i \in 1..Len(d.items) |-> Encode(d.items[i], lvl + 1, cfg)]
  IN IF Len(o.keys) = 0 THEN Ok(<<"{", "}">>, lvl)
     ELSE IF FirstError(rs) # 0 THEN Raise(rs[FirstError(rs)].lvl)
     ELSE Ok(<<"{", "\n">>
               \o Join([i \in 1..Len(rs) |->
                          IndentStr(lvl + 1, cfg)
                            \o JsonString(d.keys[i], cfg.ensure_ascii)
                            \o <<":", " ">> \o rs[i].text],
                       <<",", "\n">>)
               \o <<"\n">> \o IndentStr(lvl, cfg) \o <<"}">>, lvl)

\* encode
Encode(o, lvl, cfg) ==
  IF IsFloat(o) THEN Ok(EncodeFloat(o), lvl)
  ELSE IF IsListLike(o) THEN EncodeList(o, lvl, cfg)
  ELSE IF IsDict(o) THEN EncodeObject(o, lvl, cfg)
  ELSE EncodePrimitive(o, lvl, cfg)

(***************************** json.load **********************************)

\* t[i], or "EOF" past the end of t (a name no character has)
At(t, i) == IF i >= 1 /\ i <= Len(t) THEN t[i] ELSE "EOF"
IsDigit(c) == \E d \in 1..Len(DigitChars) : DigitChars[d] = c
DigitVal(c) == (CHOOSE d \in 1..Len(DigitChars) : DigitChars[d] = c) - 1

\* the whitespace of JSON
RECURSIVE SkipWs(_, _)
SkipWs(t, i) ==
  IF At(t, i) \in {" ", "\t", "\n", "\r"} THEN SkipWs(t, i + 1) ELSE i

\* the first index from i on that holds no digit
RECURSIVE DigitsEnd(_, _)
DigitsEnd(t, i) == IF IsDigit(At(t, i)) THEN DigitsEnd(t, i + 1) ELSE i

\* the number written by the digits t[i..j-1]
RECURSIVE DigitsValue(_, _, _)
DigitsValue(t, i, j) ==
  IF j <= i THEN 0 ELSE 10 * DigitsValue(t, i, j - 1) + DigitVal(t[j - 1])

Parsed(v, pos) == [ok |-> TRUE, v |-> v, pos |-> pos]
ParseError == [ok |-> FALSE, v |-> PyNone, pos |-> 0]

\* the last index up to j that holds a digit other than 0, 0 without one
RECURSIVE LastNonZero(_, _)
LastNonZero(ds, j) ==
  IF j >= 1 /\ ds[j] = "0" THEN LastNonZero(ds, j - 1) ELSE j

\* float() of the digits ds with the decimal point after the first p of them
\* (p may be negative or beyond the digits): the double nearest to the number
\* written, which is the digits up to the last that is not 0, as an integer
\* (of 32 bits here), times a power of ten
FloatOfDigits(ds, p, neg) ==
  PyFloat(neg, DigitsValue(ds, 1, LastNonZero(ds, Len(ds)) + 1),
          p - LastNonZero(ds, Len(ds)))

\* The scanner's pattern of a number is
\* (-?(?:0|[1-9]\d*))(\.\d+)?([eE][-+]?\d+)? and matches the longest such
\* prefix.  IntEnd, FracEnd and ExpEnd are the ends of its three groups, from
\* the starts a, b and c; a group that does not match ends where it starts.
IntEnd(t, a) == IF At(t, a) = "0" THEN a + 1 ELSE DigitsEnd(t, a)
FracEnd(t, b) ==
  IF At(t, b) = "." /\ IsDigit(At(t, b + 1)) THEN DigitsEnd(t, b + 1) ELSE b
ExpStart(t, c) == IF At(t, c + 1) \in {"+", "-"} THEN c + 2 ELSE c + 1
ExpEnd(t, c) ==
  IF At(t, c) \in {"e", "E"} /\ IsDigit(At(t, ExpStart(t, c)))
  THEN DigitsEnd(t, ExpStart(t, c)) ELSE c
\* the number written by the digits t[i..j-1], or 99999 when it is more
RECURSIVE ExpDigits(_, _, _)
ExpDigits(t, i, j) ==
  IF j <= i THEN 0
  ELSE IF ExpDigits(t, i, j - 1) > 9999 THEN 99999
  ELSE 10 * ExpDigits(t, i, j - 1) + DigitVal(t[j - 1])
\* the exponent t[c..d-1], 0 when there is none; one beyond 99999 either
\* way is as good as 99999
ExpValue(t, c, d) ==
  IF d = c THEN 0
  ELSE IF At(t, c + 1) = "-" THEN -ExpDigits(t, ExpStart(t, c), d)
  ELSE ExpDigits(t, ExpStart(t, c), d)

\* the number whose integer digits are t[a..b-1], fraction t[b..c-1] and
\* exponent t[c..d-1]: a float when it has a fraction or an exponent, else an
\* int; no match without an integer digit
NumberAt(t, a, b, c, d, sign) ==
  IF b = a THEN ParseError
  ELSE IF d > b
       THEN Parsed(FloatOfDigits(
                     SubSeq(t, a, b - 1) \o SubSeq(t, b + 1, c - 1),
                     (b - a) + ExpValue(t, c, d), sign < 0), d)
  ELSE Parsed(PyInt(sign * DigitsValue(t, a, b)), b)

NumberFrom(t, a, sign) ==
  NumberAt(t, a, IntEnd(t, a), FracEnd(t, IntEnd(t, a)),
           ExpEnd(t, FracEnd(t, IntEnd(t, a))), sign)

\* a JSON number at i
ParseNumber(t, i) ==
  IF At(t, i) = "-" THEN NumberFrom(t, i + 1, -1) ELSE NumberFrom(t, i, 1)

IsHexDigit(c) ==
  \/ IsDigit(c)
  \/ c \in {"a", "b", "c", "d", "e", "f", "A", "B", "C", "D", "E", "F"}
HexVal(c) ==
  IF IsDigit(c) THEN DigitVal(c)
  ELSE CASE c \in {"a", "A"} -> 10 [] c \in {"b", "B"} -> 11
         [] c \in {"c", "C"} -> 12 [] c \in {"d", "D"} -> 13
         [] c \in {"e", "E"} -> 14 [] c \in {"f", "F"} -> 15

\* the four hexadecimal digits t[i..i+3] of a \u escape, -1 when they are not
HexQuad(t, i) ==
  IF \A j \in i..(i + 3) : IsHexDigit(At(t, j))
  THEN 4096 * HexVal(t[i]) + 256 * HexVal(t[i + 1]) + 16 * HexVal(t[i + 2])
         + HexVal(t[i + 3])
  ELSE -1

\* the four digits of the \u escape that follows at j, 0 when none does
NextQuad(t, j) ==
  IF At(t, j) = "\\" /\ At(t, j + 1) = "u" THEN HexQuad(t, j + 2) ELSE 0

\* the character of the escape \e, e being none of u
Unescaped(e) ==
  CASE e = "b" -> Chr(8) [] e = "f" -> "\f" [] e = "n" -> "\n"
    [] e = "r" -> "\r" [] e = "t" -> "\t" [] OTHER -> e

RECURSIVE ParseString(_, _, _)
RECURSIVE ParseUEscape(_, _, _, _, _)

\* the escape \uXXXX at i with the digits u, u2 being the digits of a \u
\* escape that follows a high surrogate: with a low surrogate the two are
\* one character
ParseUEscape(t, i, acc, u, u2) ==
  IF u < 0 \/ u2 < 0 THEN ParseError
  ELSE IF u2 >= 56320 /\ u2 <= 57343
       THEN ParseString(t, i + 12,
              Append(acc, Chr(65536 + (u - 55296) * 1024 + (u2 - 56320))))
  ELSE ParseString(t, i + 6, Append(acc, Chr(u)))

\* the characters of a JSON string whose opening quote is before i (strict:
\* no control character unescaped)
ParseString(t, i, acc) ==
  CASE At(t, i) = "\"" -> Parsed(PyStr(acc), i + 1)
    [] At(t, i) = "EOF" -> ParseError
    [] At(t, i) = "\\" ->
         IF At(t, i + 1) = "u"
         THEN ParseUEscape(t, i, acc, HexQuad(t, i + 2),
                IF HexQuad(t, i + 2) >= 55296 /\ HexQuad(t, i + 2) <= 56319
                THEN NextQuad(t, i + 6) ELSE 0)
         ELSE IF At(t, i + 1) \in {"\"", "\\", "/", "b", "f", "n", "r", "t"}
              THEN ParseString(t, i + 2, Append(acc, Unescaped(At(t, i + 1))))
         ELSE ParseError
    [] OTHER -> IF At(t, i) \in ControlChars THEN ParseError
                ELSE ParseString(t, i + 1, Append(acc, At(t, i)))

Literal(t, i, w) ==
  i + Len(w) - 1 <= Len(t) /\ SubSeq(t, i, i + Len(w) - 1) = w

\* the number r matched at i, else -Infinity
NumberOrInfinity(r, t, i) ==
  IF r.ok THEN r
  ELSE IF Literal(t, i, <<"-", "I", "n", "f", "i", "n", "i", "t", "y">>)
       THEN Parsed(PyNonFinite(<<"-", "i", "n", "f">>), i + 9)
  ELSE ParseError

RECURSIVE ParseValue(_, _)
RECURSIVE ParseElements(_, _, _)
RECURSIVE ParseMembers(_, _, _, _)

\* the elements of an array after its "[" or a ",", up to its "]"
ParseElements(t, i, acc) ==
  LET r == ParseValue(t, SkipWs(t, i))
      j == SkipWs(t, r.pos)
  IN IF ~r.ok THEN ParseError
     ELSE IF At(t, j) = "," THEN ParseElements(t, j + 1, Append(acc, r.v))
     ELSE IF At(t, j) = "]" THEN Parsed(PyList(Append(acc, r.v)), j + 1)
     ELSE ParseError

\* the members of an object after its "{" or a ",", up to its "}": the pairs
\* in order, made a dict at the end
ParseMembers(t, i, accK, accV) ==
  LET a == SkipWs(t, i)
      k == IF At(t, a) = "\"" THEN ParseString(t, a + 1, <<>>) ELSE ParseError
      b == SkipWs(t, k.pos)
      r == IF k.ok /\ At(t, b) = ":" THEN ParseValue(t, SkipWs(t, b + 1))
           ELSE ParseError
      j == SkipWs(t, r.pos)
      ks == Append(accK, k.v.s)
      vs == Append(accV, r.v)
  IN IF ~r.ok THEN ParseError
     ELSE IF At(t, j) = "," THEN ParseMembers(t, j + 1, ks, vs)
     ELSE IF At(t, j) = "}"
          THEN LET d == DictFromPairs(ks, vs, <<>>, <<>>)
               IN Parsed(PyDict([x \in 1..Len(d.keys) |-> KStr(d.keys[x])],
                                d.items), j + 1)
     ELSE ParseError

ParseValue(t, i) ==
  LET c == At(t, i)
  IN CASE c = "n" /\ Literal(t, i, <<"n", "u", "l", "l">>) ->
            Parsed(PyNone, i + 4)
       [] c = "t" /\ Literal(t, i, <<"t", "r", "u", "e">>) ->
            Parsed(PyBool(TRUE), i + 4)
       [] c = "f" /\ Literal(t, i, <<"f", "a", "l", "s", "e">>) ->
            Parsed(PyBool(FALSE), i + 5)
       [] c = "\"" -> ParseString(t, i + 1, <<>>)
       [] c = "-" \/ IsDigit(c) -> NumberOrInfinity(ParseNumber(t, i), t, i)
       [] c = "N" /\ Literal(t, i, <<"N", "a", "N">>) ->
            Parsed(PyNonFinite(<<"n", "a", "n">>), i + 3)
       [] c = "I"
            /\ Literal(t, i, <<"I", "n", "f", "i", "n", "i", "t", "y">>) ->
            Parsed(PyNonFinite(<<"i", "n", "f">>), i + 8)
       [] c = "[" -> IF At(t, SkipWs(t, i + 1)) = "]"
                     THEN Parsed(PyList(<<>>), SkipWs(t, i + 1) + 1)
                     ELSE ParseElements(t, i + 1, <<>>)
       [] c = "{" -> IF At(t, SkipWs(t, i + 1)) = "}"
                     THEN Parsed(PyDict(<<>>, <<>>), SkipWs(t, i + 1) + 1)
                     ELSE ParseMembers(t, i + 1, <<>>, <<>>)
       [] OTHER -> ParseError

\* json.load of a file holding the text t: one value, then only whitespace
JsonLoad(t) ==
  LET r == ParseValue(t, SkipWs(t, 1))
  IN IF r.ok /\ SkipWs(t, r.pos) = Len(t) + 1 THEN [ok |-> TRUE, v |-> r.v]
     ELSE [ok |-> FALSE, v |-> PyNone]

(*************************** module functions *****************************)

\* dumps: json.dumps(data, allow_nan=False, sort_keys=True,
\* ensure_ascii=False, cls=VSLJSONEncoder): a new encoder, its encode
DumpsEncoder == NewEncoderObject(VSLJSONEncoder, NoIndent, TRUE, FALSE)
Dumps(v) == Encode(v, DumpsEncoder.indentation_level, DumpsEncoder)

\* DumpFormat that opens the file before it formats, as json.dump into an open
\* file does
DumpFormatOpenFirst(v, f) ==
  LET r == Dumps(v)
  IN IF r.err THEN [pc |-> "idle", raw |-> <<>>, file |-> <<>>, err |-> TRUE]
     ELSE [pc |-> "open", raw |-> r.text, file |-> <<>>, err |-> FALSE]

\* dump, up to the open: raw_json = dumps(data) comes first, and an exception
\* of it ends the call; f is the content of the file at json_filename
DumpFormat(v, f) ==
  LET r == Dumps(v)
  IN IF r.err THEN [pc |-> "idle", raw |-> <<>>, file |-> f, err |-> TRUE]
     ELSE [pc |-> "formatted", raw |-> r.text, file |-> f, err |-> FALSE]

(******************************* inputs ***********************************)

MaxNest == 2
NarrowWidth == 6
MaxLeak == 1
WidthSlack == 6

Chars(c, n) == [i \in 1..n |-> c]
FourSpaces == Chars(" ", 2 * Len(DefaultIndent))

\* v inside d lists of one element
RECURSIVE Nest(_, _)
Nest(d, v) == IF d = 0 THEN v ELSE PyList(<<Nest(d - 1, v)>>)

Ints(n) == PyList([i \in 1..n |-> PyInt(i % 10)])
\* a list of seven strs whose inline text is w characters wide: six of six
\* characters (the brackets, quotes and separators make 64) and one of w - 64
LongList(w) ==
  PyList([i \in 1..7 |-> PyStr(Chars("x", IF i < 7 THEN 6 ELSE w - 64))])

ka == KStr(<<"a">>)
kb == KStr(<<"b">>)
kc == KStr(<<"c">>)
kd == KStr(<<"d">>)
kz == KStr(<<"z">>)
kB == KStr(<<"B">>)
kab == KStr(<<"a", "b">>)
knull == KStr(<<"n", "u", "l", "l">>)

\* 0.3333333
OneThird == PyFloat(FALSE, 3333333, -7)
\* a str of a tab, a backspace, a slash, DEL, e acute and U+1F600
Odd == PyStr(<<"\t", Chr(8), "/", Chr(127), Chr(233), Chr(128512)>>)
LoneSurrogate == PyStr(<<Chr(55357)>>)
NaN == PyNonFinite(<<"n", "a", "n">>)
PosInf == PyNonFinite(<<"i", "n", "f">>)
NegInf == PyNonFinite(<<"-", "i", "n", "f">>)

ScalarCores ==
  { PyNone, PyBool(TRUE), PyBool(FALSE), PyInt(7), PyInt(-12),
    PyFloat(FALSE, 3, 0), PyFloat(FALSE, 0, 0), PyFloat(TRUE, 0, 0),
    PyFloat(TRUE, 2, 0), PyFloat(FALSE, 25, -1), PyFloat(TRUE, 25, -1),
    PyFloat(FALSE, 125, -3), OneThird, PyFloat(FALSE, 19999999, -7),
    PyFloat(FALSE, 1, -7), PyFloat(FALSE, 51, -8), PyFloat(TRUE, 6, -8),
    PyFloat(FALSE, 100000049, -8), PyFloat(FALSE, 1, 16),
    PyFloat(FALSE, 123, 20), PyFloat(TRUE, 3, -324), NaN, PosInf, NegInf,
    PyFloat(FALSE, 25, -7), PyFloat(TRUE, 25, -7), PyFloat(FALSE, 35, -7),
    PyFloat(FALSE, 1000005, -7),
    PyStr(<<"a">>), PyStr(<<"a", "\"", "b", "\\", "\n">>), Odd, PyObject }

ArrayCores ==
  { PyList(<<>>), PyList(<<PyInt(1), PyInt(2)>>),
    PyList(<<PyFloat(FALSE, 3, 0), PyFloat(FALSE, 25, -1)>>),
    PyList(<<OneThird>>), PyList(<<NaN, PyInt(1)>>), PyList(<<PyObject>>),
    PyList(<<PyStr(<<"a">>), PyNone, PyBool(TRUE)>>),
    Ints(MAX_ITEMS), Ints(MAX_ITEMS + 1),
    PyList(<<PyList(<<PyInt(1), PyInt(2)>>), PyList(<<PyInt(3), PyInt(4)>>)>>),
    PyList(<<PyList(<<>>), PyDict(<<>>, <<>>)>>),
    PyList(<<PyDict(<<kb, ka>>, <<PyInt(1), PyInt(2)>>)>>) }
  \cup { LongList(w) : w \in (MAX_WIDTH - WidthSlack)..(MAX_WIDTH + 1) }

CollisionCores ==
  { PyDict(<<KNone, knull>>, <<PyInt(1), PyInt(2)>>),
    PyDict(<<knull, KNone>>, <<PyInt(1), PyInt(2)>>),
    PyDict(<<kz, KNone, ka, knull>>,
           <<PyInt(0), PyStr(<<"a">>), PyInt(5), PyList(<<PyInt(1)>>)>>),
    PyDict(<<knull, kz, KNone>>,
           <<PyList(<<PyInt(1)>>), PyInt(0), PyFloat(FALSE, 25, -1)>>) }

DictCores ==
  { PyDict(<<>>, <<>>),
    PyDict(<<kb, ka>>, <<PyInt(1), PyInt(2)>>),
    PyDict(<<kb, ka, kB, kab>>, <<PyInt(1), PyInt(2), PyInt(3), PyInt(4)>>),
    PyDict(<<ka>>, <<PyObject>>),
    PyDict(<<kb, ka>>, <<PyList(<<PyObject>>), PyInt(1)>>),
    PyDict(<<kb, ka>>,
           <<PyList(<<PyInt(1), PyInt(2)>>),
             PyDict(<<kd, kc>>, <<PyInt(1), PyFloat(FALSE, 25, -1)>>)>>),
    PyDict(<<ka>>, <<NaN>>),
    PyDict(<<kz>>, <<PyFloat(FALSE, 3, 0)>>),
    PyDict(<<ka>>, <<OneThird>>),
    PyDict(<<KInt(1), ka>>, <<PyStr(<<"a">>), PyInt(1)>>) }
  \cup CollisionCores

Cores == ScalarCores \cup ArrayCores \cup DictCores
Inputs == { Nest(d, c) : d \in 0..MaxNest, c \in Cores }
EncCores ==
  ArrayCores \cup DictCores
    \cup {PyObject, PyFloat(FALSE, 3, 0), OneThird, NaN, PyStr(<<"a">>), Odd}
EncInputs == { Nest(d, c) : d \in 0..MaxNest, c \in EncCores }
\* a subclass of VSLJSONEncoder with a smaller MAX_WIDTH
NarrowEncoder == [VSLJSONEncoder EXCEPT !.MAX_WIDTH = NarrowWidth]
NarrowCores ==
  { PyList(<<>>), PyList(<<PyInt(1)>>), PyList(<<PyInt(1), PyInt(2)>>),
    PyDict(<<>>, <<>>), PyDict(<<ka>>, <<PyList(<<>>)>>),
    PyList(<<PyList(<<>>), PyList(<<>>)>>), PyList(<<PyObject>>), PyInt(7),
    Odd }
NarrowInputs == { Nest(d, c) : d \in 0..(MaxNest + 1), c \in NarrowCores }
FileInputs ==
  { PyList(<<PyInt(1), PyInt(2)>>), PyDict(<<kb, ka>>, <<PyInt(1), PyInt(2)>>),
    PyDict(<<ka>>, <<PyObject>>), PyList(<<PyList(<<PyObject>>)>>),
    OneThird, NaN, PyStr(<<"a">>), Odd, LoneSurrogate, PyObject }
Indents == {NoIndent, FourSpaces}
\* what the file holds before the first dump
OldContent == <<"[", "0", "]">>

(**************************** state machine *******************************)

NoOut == [op |-> "none", err |-> FALSE, text |-> <<>>, lvl0 |-> 0]

Init ==
  /\ enc = NewEncoderObject(VSLJSONEncoder, NoIndent, FALSE, TRUE)
  /\ data = PyNone
  /\ out = NoOut
  /\ file = OldContent
  /\ pc = "idle"
  /\ raw_json = <<>>
  /\ loaded = [ok |-> FALSE, v |-> PyNone]

\* enc = cls(indent=..., sort_keys=..., ensure_ascii=...); data and out are the
\* argument and the outcome of the last call on enc, and the new encoder has
\* had none
NewEncoder(cls, indent, sort_keys, ensure_ascii) ==
  /\ enc' = NewEncoderObject(cls, indent, sort_keys, ensure_ascii)
  /\ data' = PyNone
  /\ out' = NoOut
  /\ UNCHANGED <<file, pc, raw_json, loaded>>

\* enc.encode(v), returning or raising
EncodeCall(v) ==
  /\ enc.indentation_level <= MaxLeak
  /\ LET r == Encode(v, enc.indentation_level, enc)
     IN /\ enc' = [enc EXCEPT !.indentation_level = r.lvl]
        /\ out' = [op |-> "encode", err |-> r.err, text |-> r.text,
                   lvl0 |-> enc.indentation_level]
  /\ data' = v
  /\ UNCHANGED <<file, pc, raw_json, loaded>>

\* dumps(v), returning or raising
DumpsCall(v) ==
  /\ LET r == Dumps(v)
     IN out' = [op |-> "dumps", err |-> r.err, text |-> r.text, lvl0 |-> 0]
  /\ data' = v
  /\ UNCHANGED <<enc, file, pc, raw_json, loaded>>

\* dump(v, path): raw_json = dumps(v)
DumpBegin(v) ==
  /\ pc = "idle"
  /\ LET r == DumpFormat(v, file)
     IN /\ pc' = r.pc
        /\ raw_json' = r.raw
        /\ file' = r.file
        /\ out' = [op |-> "dump", err |-> r.err, text |-> r.raw, lvl0 |-> 0]
  /\ data' = v
  /\ UNCHANGED <<enc, loaded>>

\* dump: open(json_filename, "w") truncates the file
DumpOpen ==
  /\ pc = "formatted"
  /\ file' = <<>>
  /\ pc' = "open"
  /\ UNCHANGED <<enc, data, out, raw_json, loaded>>

\* str.encode("utf-8") of a text: UnicodeEncodeError for a surrogate
Utf8Encodable(text) ==
  \A i \in 1..Len(text) :
    IsAscii(text[i]) \/ Ord(text[i]) < 55296 \/ Ord(text[i]) > 57343

\* dump: out.write(raw_json), and the file is closed; a write that raises
\* has written nothing
DumpWrite ==
  /\ pc = "open"
  /\ file' = IF Utf8Encodable(raw_json) THEN raw_json ELSE <<>>
  /\ out' = [out EXCEPT !.err = ~Utf8Encodable(raw_json)]
  /\ pc' = "idle"
  /\ UNCHANGED <<enc, data, raw_json, loaded>>

\* load(path)
LoadCall ==
  /\ pc = "idle"
  /\ loaded' = JsonLoad(file)
  /\ UNCHANGED <<enc, data, out, file, pc, raw_json>>

Next ==
  \/ \E i \in Indents, b \in BOOLEAN : NewEncoder(VSLJSONEncoder, i, b, TRUE)
  \/ \E v \in EncInputs : EncodeCall(v)

Spec == Init /\ [][Next]_vars

NextDumps == \E v \in Inputs : DumpsCall(v)

SpecDumps == Init /\ [][NextDumps]_vars

NextNarrow ==
  \/ \E i \in Indents, b, a \in BOOLEAN : NewEncoder(NarrowEncoder, i, b, a)
  \/ \E v \in NarrowInputs : EncodeCall(v)

SpecNarrow == Init /\ [][NextNarrow]_vars

NextFile ==
  \/ \E v \in FileInputs : DumpBegin(v)
  \/ DumpOpen
  \/ DumpWrite
  \/ LoadCall

SpecFile == Init /\ [][NextFile]_vars

(************************* what the claims speak of ***********************)

RECURSIVE HasNonFinite(_)
HasNonFinite(v) ==
  \/ IsFloat(v) /\ ~IsFinite(v)
  \/ \E i \in 1..Len(v.items) : HasNonFinite(v.items[i])

\* a tree a JSON parser can produce: no tuple, no foreign object, str keys
RECURSIVE IsJsonTree(_)
IsJsonTree(v) ==
  /\ v.t \in {"none", "bool", "int", "float", "str", "list", "dict"}
  /\ \A i \in 1..Len(v.keys) : v.keys[i].kt = "str"
  /\ \A i, j \in 1..Len(v.keys) : v.keys[i] = v.keys[j] => i = j
  /\ \A i \in 1..Len(v.items) : IsJsonTree(v.items[i])

\* every float of the tree is a multiple of 10^-FRAC_DIGITS
RECURSIVE FitsFracDigits(_)
FitsFracDigits(v) ==
  /\ IsFloat(v) /\ IsFinite(v) => v.e >= -FRAC_DIGITS
  /\ \A i \in 1..Len(v.items) : FitsFracDigits(v.items[i])

IsNumber(v) == v.t \in {"int", "float"}
\* the number of an int or a finite float as <<sign, n, e, base>>, the same
\* for numbers that are equal: float(i) is exact for these ints, -0.0 == 0.0
FloatValue(v) == <<v.neg /\ v.n # 0, v.n, v.e, v.base>>
NumValue(v) ==
  IF v.t = "int"
  THEN FloatValue(PyFloat(v.n < 0, IF v.n < 0 THEN -v.n ELSE v.n, 0))
  ELSE FloatValue(v)

\* a == b of Python, on trees
RECURSIVE SameValue(_, _)
SameValue(a, b) ==
  IF IsNumber(a) /\ IsNumber(b)
  THEN IsFinite(a) /\ IsFinite(b) /\ NumValue(a) = NumValue(b)
  ELSE /\ a.t = b.t
       /\ a.n = b.n
       /\ a.s = b.s
       /\ Len(a.items) = Len(b.items)
       /\ IF a.t = "dict"
          THEN \A i \in 1..Len(a.keys) : \E j \in 1..Len(b.keys) :
                 a.keys[i] = b.keys[j] /\ SameValue(a.items[i], b.items[j])
          ELSE \A i \in 1..Len(a.items) : SameValue(a.items[i], b.items[i])

\* in every dict of the tree the keys ascend
RECURSIVE KeysAscending(_)
KeysAscending(v) ==
  /\ \A i \in 1..(Len(v.keys) - 1) : StrLess(v.keys[i].s, v.keys[i + 1].s)
  /\ \A i \in 1..Len(v.items) : KeysAscending(v.items[i])

\* some dict of the tree has its keys in an order that does not ascend
RECURSIVE HasUnsortedDict(_)
HasUnsortedDict(v) ==
  \/ \E i \in 1..(Len(v.keys) - 1) :
       ~StrLess(KeyText(v.keys[i]), KeyText(v.keys[i + 1]))
  \/ \E i \in 1..Len(v.items) : HasUnsortedDict(v.items[i])

\* how many times the text w occurs in t
Occurrences(t, w) ==
  Cardinality({i \in 1..Len(t) : Literal(t, i, w)})

\* the value inside d lists of one element
RECURSIVE Unnest(_, _)
Unnest(d, v) == IF d = 0 THEN v ELSE Unnest(d - 1, v.items[1])

\* the rendering of d nested lists of one element around text, from depth k
RECURSIVE Wrapped(_, _, _, _)
Wrapped(d, k, cfg, text) ==
  IF k = d THEN text
  ELSE <<"[", "\n">> \o IndentStr(k + 1, cfg) \o Wrapped(d, k + 1, cfg, text)
         \o <<"\n">> \o IndentStr(k, cfg) \o <<"]">>

\* the encoder of the last call
Cfg == IF out.op = "encode" THEN enc ELSE DumpsEncoder
\* the last call was an encode or a dumps that began at level 0 and returned
Returned == out.op \in {"encode", "dumps"} /\ out.lvl0 = 0 /\ ~out.err

\* the inline form of a list of scalars
InlineText(a, cfg) ==
  <<"[">> \o Join([i \in 1..Len(a.items) |-> Encode(a.items[i], 0, cfg).text],
                  <<",", " ">>) \o <<"]">>
\* the expanded form of a list at depth d
ExpandedText(a, d, cfg) ==
  <<"[", "\n">>
    \o Join([i \in 1..Len(a.items) |->
               IndentStr(d + 1, cfg) \o Encode(a.items[i], d + 1, cfg).text],
            <<",", "\n">>)
    \o <<"\n">> \o IndentStr(d, cfg) \o <<"]">>
\* the width rule with the width of the indent unit
FitsInline(a, d, cfg) ==
  /\ PrimitivesOnly(a)
  /\ Len(a.items) <= MAX_ITEMS
  /\ Len(InlineText(a, cfg)) + d * Len(cfg.indent) < MAX_WIDTH

\* C1: an array at depth d renders inline iff its children are scalars, it has
\* at most MAX_ITEMS items and len(inline) + d * len(indent_unit) < MAX_WIDTH;
\* otherwise it renders expanded, one child per line.
C1_ArrayInlineIffFits ==
  \A d \in 0..MaxNest, a \in ArrayCores :
    (Returned /\ data = Nest(d, a)) =>
      out.text = Wrapped(d, 0, Cfg,
                         IF FitsInline(a, d, Cfg) THEN InlineText(a, Cfg)
                         ELSE ExpandedText(a, d, Cfg))

\* the inline form of a dict of scalars
InlineObjectText(o, cfg) ==
  LET n == NormalizeKeys(o)
      d == IF cfg.sort_keys THEN SortItems(n) ELSE n
  IN <<"{">>
       \o Join([i \in 1..Len(d.keys) |->
                  JsonString(d.keys[i], cfg.ensure_ascii) \o <<":", " ">>
                    \o Encode(d.items[i], 0, cfg).text],
               <<",", " ">>)
       \o <<"}">>

\* C2: a non-empty object of at most MAX_ITEMS scalar values whose inline text
\* passes the width test renders on one line as {"k1": v1, "k2": v2}.
C2_ObjectInline ==
  (/\ Returned
   /\ IsDict(data) /\ Len(data.keys) > 0
   /\ PrimitivesOnly(data) /\ Len(data.keys) <= MAX_ITEMS
   /\ Len(InlineObjectText(data, Cfg)) < MAX_WIDTH)
  => out.text = InlineObjectText(data, Cfg)

\* C3: dumps of a tree that holds a NaN or an infinity anywhere raises.
C3_NonFiniteRaises ==
  (out.op = "dumps" /\ HasNonFinite(data)) => out.err

IsIntegral(v) == IsFloat(v) /\ IsFinite(v) /\ v.e >= 0
\* str(int(v)) of an integral float
IntegerText(v) ==
  (IF v.neg /\ v.n # 0 THEN <<"-">> ELSE <<>>)
    \o NatText(v.n) \o Rep(<<"0">>, v.e)

\* C4: a finite float without fractional part renders as its integer, with no
\* decimal point, as the root and as an element of a list.
C4_IntegralWithoutPoint ==
  /\ (Returned /\ IsIntegral(data)) => out.text = IntegerText(data)
  /\ (Returned /\ IsListLike(data) /\ Len(data.items) > 0
        /\ \A i \in 1..Len(data.items) : IsIntegral(data.items[i]))
     => \A i \in 1..Len(out.text) : out.text[i] # "."

\* C5 as stated: dumps of a JSON tree without NaN or infinity parses back to
\* an equal tree.
C5_RoundTripAll ==
  (out.op = "dumps" /\ IsJsonTree(data) /\ ~HasNonFinite(data))
  => /\ ~out.err
     /\ JsonLoad(out.text).ok
     /\ SameValue(JsonLoad(out.text).v, data)

\* C5, amended: dumps of a JSON tree without NaN or infinity, whose floats all
\* have at most FRAC_DIGITS decimals, parses back to an equal tree.
C5_RoundTrip ==
  (out.op = "dumps" /\ IsJsonTree(data) /\ ~HasNonFinite(data)
     /\ FitsFracDigits(data))
  => /\ ~out.err
     /\ JsonLoad(out.text).ok
     /\ SameValue(JsonLoad(out.text).v, data)

C5_Witness ==
  /\ out.op = "dumps" /\ ~out.err
  /\ IsJsonTree(data) /\ FitsFracDigits(data)
  /\ IsDict(data)
  /\ \E i \in 1..Len(data.items) :
       IsDict(data.items[i])
         /\ \E j \in 1..Len(data.items[i].items) :
              IsFloat(data.items[i].items[j])
                /\ ~IsIntegral(data.items[i].items[j])
  /\ SameValue(JsonLoad(out.text).v, data)

\* C6: a dump whose formatting fails never opens the file: it ends with the
\* file as it was.
C6_FailedDumpKeepsFile ==
  [][(pc = "idle" /\ out'.op = "dump" /\ out'.err)
       => (file' = file /\ pc' = "idle")]_vars

C6_Witness ==
  /\ out.op = "dump" /\ out.err /\ pc = "idle"
  /\ file # OldContent /\ Len(file) > 0

\* C7: whenever no encode is in progress the level is 0, so that an encode
\* that returns has indented as a new encoder does.
C7_LevelBalanced ==
  /\ enc.indentation_level = 0
  /\ (out.op = "encode" /\ ~out.err) => out.text = Encode(data, 0, enc).text

\* C8: with sort_keys the keys of every object of the output ascend.
C8_SortedKeys ==
  (out.op = "encode" /\ enc.sort_keys /\ ~out.err)
  => /\ HasNonFinite(data) \/ JsonLoad(out.text).ok
     /\ JsonLoad(out.text).ok => KeysAscending(JsonLoad(out.text).v)

C8_Witness ==
  /\ out.op = "encode" /\ enc.sort_keys /\ ~out.err
  /\ IsDict(data) /\ HasUnsortedDict(data)
  /\ \E i \in 1..Len(data.items) : HasUnsortedDict(data.items[i])
  /\ JsonLoad(out.text).ok
  /\ KeysAscending(JsonLoad(out.text).v)

NullKeyText == <<"\"", "n", "u", "l", "l", "\"", ":">>
\* the index of the later of the keys None and "null" of a dict
LaterNull(c) ==
  CHOOSE i \in 1..Len(c.keys) :
    /\ c.keys[i] \in {KNone, knull}
    /\ \A j \in 1..Len(c.keys) : c.keys[j] \in {KNone, knull} => j <= i

\* C9: an object with the keys None and "null" is written with one "null"
\* key, whose value is that of the later of the two entries.
C9_NullCollision ==
  \A d \in 0..MaxNest, c \in CollisionCores :
    (out.op = "dumps" /\ data = Nest(d, c))
    => /\ ~out.err
       /\ Occurrences(out.text, NullKeyText) = 1
       /\ JsonLoad(out.text).ok
       /\ LET o == Unnest(d, JsonLoad(out.text).v)
          IN \E i \in 1..Len(o.keys) :
               o.keys[i] = knull /\ SameValue(o.items[i], c.items[LaterNull(c)])

C9_Witness ==
  /\ out.op = "dumps" /\ ~out.err
  /\ \E d \in 1..MaxNest, c \in CollisionCores :
       /\ data = Nest(d, c)
       /\ c.keys[LaterNull(c)] = KNone
       /\ c.keys[1] = knull
  /\ Occurrences(out.text, NullKeyText) = 1

\* C10: an empty array renders as [] at every depth.
C10_EmptyArray ==
  \A d \in 0..(MaxNest + 1) :
    (Returned /\ data = Nest(d, PyList(<<>>)))
    => out.text = Wrapped(d, 0, Cfg, <<"[", "]">>)

====
